---- MODULE Spec2Model ----
(***************************************************************************)
(* A model of the insightQuery Lambda of github-insights: the handler and  *)
(* the five functions it calls (getGitHubToken, testGitHubAuthentication,  *)
(* getRepositoriesFromS3, fetchRepositoryInsights, uploadInsightsToS3),    *)
(* together with the collaborators they talk to: the process environment,  *)
(* Secrets Manager, the GitHub API, the S3 bucket, the /tmp file system    *)
(* and the wall clock.  One step of the model is one piece of JavaScript   *)
(* that runs between two awaits.                                           *)
(***************************************************************************)
EXTENDS Integers, Sequences, FiniteSets, TLC

VARIABLES
    env,            \* process.env: GITHUB_TOKEN_SECRET_NAME, INSIGHTS_BUCKET
    clock,          \* the wall clock, [day |-> days since 1970-01-01, ms |-> ms of the day]
    ticksLeft,      \* how many more milliseconds the clock may advance
    s3,             \* the bucket: object key -> body
    tmp,            \* the file /tmp/insights.parquet
    pc,             \* per invocation: where the handler is
    githubToken,    \* per invocation: the token getGitHubToken returned
    repositories,   \* per invocation: what getRepositoriesFromS3 returned
    fetch,          \* per invocation: per list entry, the state of its API calls
    insights,       \* per invocation: what fetchRepositoryInsights returned
    w,              \* per invocation: the locals of uploadInsightsToS3
    err,            \* per invocation: the error thrown out of handler
    stageLog,       \* per invocation: the stages started and ended, in order
    calls,          \* per invocation: calls sent to the secret store, users API and bucket
    answers,        \* per invocation: how each of these calls, and each file operation, ended
    github          \* what the GitHub API holds about a repository

vars == <<env, clock, ticksLeft, s3, tmp, pc, githubToken, repositories, fetch,
          insights, w, err, stageLog, calls, answers, github>>

-----------------------------------------------------------------------------
(* Bounds *)

\* The clock advances by at most this many milliseconds in a behaviour.
MaxTicks == 2

\* The issues, and the pull requests, of a repository are at most this many.
MaxItems == 2

\* The invocations of the handler.
Runs == {"run1", "run2"}

-----------------------------------------------------------------------------
(* JavaScript values *)

Undefined == "<undefined>"

\* !v for the values an environment variable or a string field can have
Falsy(v) == v \in {Undefined, ""}

\* x || d
OrElse(x, d) == IF Falsy(x) THEN d ELSE x

RECURSIVE SeqSum(_)
SeqSum(s) == IF s = <<>> THEN 0 ELSE Head(s) + SeqSum(Tail(s))

-----------------------------------------------------------------------------
(* The clock: Date, getUTCFullYear, getUTCMonth, getUTCDate, toISOString *)

MsPerDay == 24 * 60 * 60 * 1000

\* The civil date of a day number (days since 1970-01-01), as Date computes it.
CivilFromDays(z) ==
    LET zz  == z + 719468
        era == zz \div 146097
        doe == zz - era * 146097
        yoe == (doe - doe \div 1460 + doe \div 36524 - doe \div 146096) \div 365
        doy == doe - (365 * yoe + yoe \div 4 - yoe \div 100)
        mp  == (5 * doy + 2) \div 153
        d   == doy - (153 * mp + 2) \div 5 + 1
        m   == IF mp < 10 THEN mp + 3 ELSE mp - 9
    IN  [year |-> yoe + era * 400 + (IF m <= 2 THEN 1 ELSE 0), month |-> m, date |-> d]

getUTCFullYear(t) == CivilFromDays(t.day).year
\* 0-based, as in JavaScript
getUTCMonth(t) == CivilFromDays(t.day).month - 1
getUTCDate(t) == CivilFromDays(t.day).date

Digit == <<"0", "1", "2", "3", "4", "5", "6", "7", "8", "9">>

\* String(n) for n >= 0, as a sequence of characters
RECURSIVE NumToChars(_)
NumToChars(n) ==
    IF n < 10 THEN <<Digit[n + 1]>> ELSE NumToChars(n \div 10) \o <<Digit[(n % 10) + 1]>>

\* s.padStart(k, '0')
RECURSIVE PadStart(_, _)
PadStart(s, k) == IF Len(s) >= k THEN s ELSE PadStart(<<"0">> \o s, k)

\* now.toISOString(): YYYY-MM-DDTHH:mm:ss.sssZ
toISOString(t) ==
    LET c == CivilFromDays(t.day)
        h == t.ms \div 3600000
        mi == (t.ms \div 60000) % 60
        s == (t.ms \div 1000) % 60
        ms == t.ms % 1000
    IN  PadStart(NumToChars(c.year), 4) \o <<"-">> \o PadStart(NumToChars(c.month), 2)
          \o <<"-">> \o PadStart(NumToChars(c.date), 2) \o <<"T">>
          \o PadStart(NumToChars(h), 2) \o <<":">> \o PadStart(NumToChars(mi), 2)
          \o <<":">> \o PadStart(NumToChars(s), 2) \o <<".">>
          \o PadStart(NumToChars(ms), 3) \o <<"Z">>

IsPunct(c) == c \in {":", "."}

\* s.replace(/[:.]/g, '')
StripPunct(s) == SelectSeq(s, LAMBDA c : ~IsPunct(c))

\* the characters of s as one string
RECURSIVE Join(_)
Join(s) == IF s = <<>> THEN "" ELSE Head(s) \o Join(Tail(s))

\* one millisecond later
NextMs(t) ==
    IF t.ms + 1 = MsPerDay THEN [day |-> t.day + 1, ms |-> 0]
    ELSE [day |-> t.day, ms |-> t.ms + 1]

\* Instants the clock starts from: 2024-12-31T23:59:59.998Z (two milliseconds
\* before a new year), 2025-03-05T08:07:06.005Z (one-digit month, day, hour,
\* minute and second) and 2024-02-29T12:00:00.000Z (a leap day).
StartInstants ==
    { [day |-> 20088, ms |-> 86399998],
      [day |-> 20152, ms |-> 29226005],
      [day |-> 19782, ms |-> 43200000] }


-----------------------------------------------------------------------------
(* The configuration and the collaborators' data *)

SecretNameValue == "/github_insights/github_token"
BucketValue == "insights-bucket"

\* process.env as the deployment can set it: both settings, or one of them
\* missing or empty
EnvConfigs ==
    { [GITHUB_TOKEN_SECRET_NAME |-> SecretNameValue, INSIGHTS_BUCKET |-> BucketValue],
      [GITHUB_TOKEN_SECRET_NAME |-> Undefined, INSIGHTS_BUCKET |-> BucketValue],
      [GITHUB_TOKEN_SECRET_NAME |-> "", INSIGHTS_BUCKET |-> BucketValue],
      [GITHUB_TOKEN_SECRET_NAME |-> SecretNameValue, INSIGHTS_BUCKET |-> Undefined],
      [GITHUB_TOKEN_SECRET_NAME |-> SecretNameValue, INSIGHTS_BUCKET |-> ""] }

EnvComplete == [GITHUB_TOKEN_SECRET_NAME |-> SecretNameValue, INSIGHTS_BUCKET |-> BucketValue]

\* What GetSecretValue can answer: an error, or a response whose SecretString
\* is absent, or is the text of one of these JSON payloads.
SecretResponses ==
    { [ok |-> FALSE, SecretString |-> Undefined, GITHUB_TOKEN |-> Undefined],
      [ok |-> TRUE, SecretString |-> Undefined, GITHUB_TOKEN |-> Undefined],
      [ok |-> TRUE, SecretString |-> "{}", GITHUB_TOKEN |-> Undefined],
      [ok |-> TRUE, SecretString |-> "{\"GITHUB_TOKEN\":\"\"}", GITHUB_TOKEN |-> ""],
      [ok |-> TRUE, SecretString |-> "{\"GITHUB_TOKEN\":\"ghp_abc\"}", GITHUB_TOKEN |-> "ghp_abc"] }

\* Repository references
RefAlpha == [owner |-> "octo", repo |-> "alpha"]
RefBeta == [owner |-> "octo", repo |-> "beta"]
FallbackRef == [owner |-> "aws-samples", repo |-> "anthropic-on-aws"]

JsonNull == [json |-> "null"]
JsonObject(o) == [json |-> "object", value |-> o]
JsonArray(items) == [json |-> "array", items |-> items]

\* Texts the object repositories.json can hold, and what JSON.parse makes of
\* each: ok = FALSE stands for a SyntaxError.
RepositoryTexts ==
    { "[]",
      "[{\"owner\":\"octo\",\"repo\":\"alpha\"}]",
      "{\"owner\":\"octo\",\"repo\":\"alpha\"}",
      "[{\"owner\":\"octo\",\"repo\":\"alpha\"},null]",
      "",
      "[{\"owner\":" }

\* Lists of two references: two repositories, and one repository listed twice
TwoEntryTexts ==
    { "[{\"owner\":\"octo\",\"repo\":\"alpha\"},{\"owner\":\"octo\",\"repo\":\"beta\"}]",
      "[{\"owner\":\"octo\",\"repo\":\"alpha\"},{\"owner\":\"octo\",\"repo\":\"alpha\"}]" }

JSONparse(text) ==
    CASE text = "[]" -> [ok |-> TRUE, value |-> JsonArray(<<>>)]
      [] text = "[{\"owner\":\"octo\",\"repo\":\"alpha\"}]" ->
            [ok |-> TRUE, value |-> JsonArray(<<JsonObject(RefAlpha)>>)]
      [] text = "[{\"owner\":\"octo\",\"repo\":\"alpha\"},{\"owner\":\"octo\",\"repo\":\"beta\"}]" ->
            [ok |-> TRUE, value |-> JsonArray(<<JsonObject(RefAlpha), JsonObject(RefBeta)>>)]
      [] text = "[{\"owner\":\"octo\",\"repo\":\"alpha\"},{\"owner\":\"octo\",\"repo\":\"alpha\"}]" ->
            [ok |-> TRUE, value |-> JsonArray(<<JsonObject(RefAlpha), JsonObject(RefAlpha)>>)]
      [] text = "{\"owner\":\"octo\",\"repo\":\"alpha\"}" ->
            [ok |-> TRUE, value |-> JsonObject(RefAlpha)]
      [] text = "[{\"owner\":\"octo\",\"repo\":\"alpha\"},null]" ->
            [ok |-> TRUE, value |-> JsonArray(<<JsonObject(RefAlpha), JsonNull>>)]
      [] OTHER -> [ok |-> FALSE, value |-> JsonNull]

RepositoriesKey == "repositories.json"
TmpPath == "/tmp/insights.parquet"

\* The five calls made for a repository after its metadata call
SecondaryCalls == {"issues", "pulls", "contributors", "release", "commits"}

\* The release GitHub answers with when there is one
SampleRelease == [name |-> "v1.2.0", published_at |-> "2024-11-05T10:00:00Z"]

Stages == <<"ObtainToken", "AuthenticateClient", "LoadRepositories", "Collect", "Write">>


-----------------------------------------------------------------------------
(* What the GitHub API answers *)

MsPerHour == 60 * 60 * 1000

\* the instant ms milliseconds after the instant t
Later(t, ms) ==
    LET total == t.ms + ms
    IN  [day |-> t.day + total \div MsPerDay, ms |-> total % MsPerDay]

\* 2024-10-04T00:00:00.000Z
Opened == [day |-> 20000, ms |-> 0]

\* An element of issues.listForRepo: pull_request is absent, or the
\* back-reference (here its url) of the pull request the issue stands for.
IssueData(state, pull_request, hours) ==
    [state |-> state, pull_request |-> pull_request, created_at |-> Opened,
     closed_at |-> IF state = "closed" THEN Later(Opened, hours * MsPerHour) ELSE JsonNull]

\* An element of pulls.list, closed (merged or not) after the given minutes
PullData(state, merged, minutes) ==
    [state |-> state, created_at |-> Opened,
     closed_at |-> IF state = "closed" THEN Later(Opened, minutes * 60000) ELSE JsonNull,
     merged_at |-> IF merged THEN Later(Opened, minutes * 60000) ELSE JsonNull]

PullUrl == "https://api.github.com/repos/octo/alpha/pulls/7"

IssueItems ==
    { IssueData("closed", Undefined, 24), IssueData("closed", Undefined, 49),
      IssueData("closed", PullUrl, 10), IssueData("open", Undefined, 0) }

PullItems ==
    { PullData("closed", TRUE, 24 * 60), PullData("closed", TRUE, 48 * 60),
      PullData("closed", TRUE, 90), PullData("closed", FALSE, 10 * 60),
      PullData("open", FALSE, 0) }

\* The answers of getCommitActivityStats: weekly buckets, oldest first, or the
\* empty object of a 202 response.
Weeks(totals) == JsonArray([i \in 1..Len(totals) |-> [total |-> totals[i]]])

CommitActivities ==
    { Weeks(<<>>), Weeks(<<7>>), Weeks(<<0, 3>>), Weeks(<<1, 2, 3, 4>>),
      Weeks(<<1, 2, 3, 4, 5>>), Weeks(<<9, 0, 0, 0, 0>>), [json |-> "object"] }

\* The release GitHub answers with when there is one: with a name, or
\* published from a tag without one.
UnnamedRelease == [name |-> Undefined, published_at |-> "2024-12-01T09:30:00Z"]

\* the data of repos.get
SampleRepoData ==
    [description |-> Undefined, stargazers_count |-> 12, forks_count |-> 3,
     open_issues_count |-> 2, subscribers_count |-> 5, language |-> "TypeScript",
     topics |-> <<"aws", "cdk">>, license |-> JsonNull, size |-> 640,
     created_at |-> "2024-01-15T10:00:00Z", updated_at |-> "2024-12-20T08:00:00Z",
     pushed_at |-> "2024-12-21T18:30:00Z"]

\* the lists of at most n elements of items
ListsUpTo(items, n) == UNION { [1..k -> items] : k \in 0..n }

\* What GitHub holds about a repository with one closed issue, one merged
\* pull request, two contributors, a named release and five weeks of commits.
SampleGitHub ==
    [repo |-> SampleRepoData,
     issues |-> <<IssueData("closed", Undefined, 24)>>,
     pulls |-> <<PullData("closed", TRUE, 24 * 60)>>,
     contributors |-> <<"octocat", "hubot">>,
     release |-> SampleRelease,
     commits |-> Weeks(<<1, 2, 3, 4, 5>>)]

\* The states of GitHub considered: SampleGitHub with its issues, its pull
\* requests, its commit activity or its release replaced.
GitHubStates ==
    { [SampleGitHub EXCEPT !.issues = l] : l \in ListsUpTo(IssueItems, MaxItems) }
    \cup { [SampleGitHub EXCEPT !.pulls = l] : l \in ListsUpTo(PullItems, MaxItems) }
    \cup { [SampleGitHub EXCEPT !.commits = c] : c \in CommitActivities }
    \cup { [SampleGitHub EXCEPT !.release = rel] : rel \in {SampleRelease, UnnamedRelease} }

-----------------------------------------------------------------------------
(* The state of one invocation *)

NotLoaded == [json |-> "unset"]
NoInstant == [day |-> 0, ms |-> 0]
NoLocals ==
    [now |-> NoInstant, year |-> 0, month |-> "", day |-> "", timestamp |-> "",
     rows |-> <<>>, fileContent |-> <<>>, key |-> ""]
NoCalls == [secret |-> 0, auth |-> 0, getObject |-> 0, putObject |-> 0]
NoResponse == [ok |-> FALSE, SecretString |-> "<none>", GITHUB_TOKEN |-> "<none>"]
NoAnswers ==
    [secret |-> NoResponse, auth |-> "none", getObject |-> "none", openFile |-> "none",
     appendRow |-> "none", close |-> "none", readFile |-> "none", putObject |-> "none"]
Answer(ok) == IF ok THEN "ok" ELSE "error"

Pending == [kind |-> "pending"]
Null == [kind |-> "null"]
Fulfilled(rec) == [kind |-> "record", rec |-> rec]

\* A catch block that logs the error and does not throw it again.
ThrowNothing(r, stage, message) ==
    /\ pc' = [pc EXCEPT ![r] = "done"]
    /\ err' = err
    /\ stageLog' = [stageLog EXCEPT ![r] = Append(@, <<stage, "fail">>)]

\* the handler's catch block: log the error and throw it again, so that the
\* invocation ends in failure, in the stage that was running
Throw(r, stage, message) ==
    /\ pc' = [pc EXCEPT ![r] = "failed"]
    /\ err' = [err EXCEPT ![r] = message]
    /\ stageLog' = [stageLog EXCEPT ![r] = Append(@, <<stage, "fail">>)]

\* the same for an error thrown before the stage's first await
ThrowAtStart(r, stage, message) ==
    /\ pc' = [pc EXCEPT ![r] = "failed"]
    /\ err' = [err EXCEPT ![r] = message]
    /\ stageLog' = [stageLog EXCEPT ![r] = @ \o <<(<<stage, "start">>), (<<stage, "fail">>)>>]

Begin(r, stage, next) ==
    /\ pc' = [pc EXCEPT ![r] = next]
    /\ stageLog' = [stageLog EXCEPT ![r] = Append(@, <<stage, "start">>)]
    /\ err' = err

Complete(r, stage, next) ==
    /\ pc' = [pc EXCEPT ![r] = next]
    /\ stageLog' = [stageLog EXCEPT ![r] = Append(@, <<stage, "ok">>)]
    /\ err' = err

Goto(r, next) ==
    /\ pc' = [pc EXCEPT ![r] = next]
    /\ UNCHANGED <<stageLog, err>>

\* A handler that does not await testGitHubAuthentication before it loads the
\* repository list.
AfterStageSkippingAuthentication(stage) ==
    CASE stage = "ObtainToken" -> "authed"
      [] stage = "AuthenticateClient" -> "authed"
      [] stage = "LoadRepositories" -> "loaded"
      [] stage = "Collect" -> "collected"
      [] stage = "Write" -> "done"

\* The order in which handler calls the five functions: the position reached
\* when the given stage has returned.
AfterStage(stage) ==
    CASE stage = "ObtainToken" -> "have_token"
      [] stage = "AuthenticateClient" -> "authed"
      [] stage = "LoadRepositories" -> "loaded"
      [] stage = "Collect" -> "collected"
      [] stage = "Write" -> "done"

-----------------------------------------------------------------------------
(* getGitHubToken *)

\* The function up to its await: the check of the setting, then the request
\* to Secrets Manager.
GetGitHubToken(r) ==
    /\ pc[r] = "start"
    /\ IF Falsy(env.GITHUB_TOKEN_SECRET_NAME)
       THEN /\ ThrowAtStart(r, "ObtainToken", "GITHUB_TOKEN_SECRET_NAME environment variable is not set")
            /\ UNCHANGED calls
       ELSE /\ Begin(r, "ObtainToken", "token_wait")
            /\ calls' = [calls EXCEPT ![r].secret = @ + 1]
    /\ UNCHANGED <<github, env, clock, ticksLeft, s3, tmp, githubToken, repositories, fetch, insights, w,
                   answers>>

\* A function without the check of the field of the secret JSON.
TokenOutcomeUnchecked(resp) ==
    IF ~resp.ok THEN [ok |-> FALSE, message |-> "GetSecretValue failed"]
    ELSE IF Falsy(resp.SecretString)
         THEN [ok |-> FALSE, message |-> "GitHub token not found in Secrets Manager"]
    ELSE [ok |-> TRUE, token |-> resp.GITHUB_TOKEN]

\* What the function makes of the answer resp
TokenOutcome(resp) ==
    IF ~resp.ok THEN [ok |-> FALSE, message |-> "GetSecretValue failed"]
    ELSE IF Falsy(resp.SecretString)
         THEN [ok |-> FALSE, message |-> "GitHub token not found in Secrets Manager"]
    ELSE IF Falsy(resp.GITHUB_TOKEN)
         THEN [ok |-> FALSE, message |-> "GitHub token not found in the secret JSON"]
    ELSE [ok |-> TRUE, token |-> resp.GITHUB_TOKEN]

\* The answer of Secrets Manager arrives.
SecretResponse(r) ==
    /\ pc[r] = "token_wait"
    /\ \E resp \in SecretResponses :
         LET out == TokenOutcome(resp) IN
         /\ answers' = [answers EXCEPT ![r].secret = resp]
         /\ IF out.ok
            THEN /\ githubToken' = [githubToken EXCEPT ![r] = out.token]
                 /\ Complete(r, "ObtainToken", AfterStage("ObtainToken"))
            ELSE /\ Throw(r, "ObtainToken", out.message)
                 /\ UNCHANGED githubToken
    /\ UNCHANGED <<github, env, clock, ticksLeft, s3, tmp, repositories, fetch, insights, w, calls>>

-----------------------------------------------------------------------------
(* testGitHubAuthentication *)

\* new Octokit, then users.getAuthenticated is sent
TestGitHubAuthentication(r) ==
    /\ pc[r] = "have_token"
    /\ Begin(r, "AuthenticateClient", "auth_wait")
    /\ calls' = [calls EXCEPT ![r].auth = @ + 1]
    /\ UNCHANGED <<github, env, clock, ticksLeft, s3, tmp, githubToken, repositories, fetch, insights, w,
                   answers>>

\* A catch block that logs the error and returns.
AuthenticationErrorSwallowed(r) ==
    Complete(r, "AuthenticateClient", AfterStage("AuthenticateClient"))

\* the catch block: the error is logged, and a new one thrown
AuthenticationFailed(r) ==
    Throw(r, "AuthenticateClient", "Failed to authenticate with GitHub")

\* GitHub answers.
AuthResponse(r) ==
    /\ pc[r] = "auth_wait"
    /\ \E ok \in BOOLEAN :
         /\ answers' = [answers EXCEPT ![r].auth = Answer(ok)]
         /\ IF ok THEN Complete(r, "AuthenticateClient", AfterStage("AuthenticateClient"))
            ELSE AuthenticationFailed(r)
    /\ UNCHANGED <<github, env, clock, ticksLeft, s3, tmp, githubToken, repositories, fetch, insights, w, calls>>

-----------------------------------------------------------------------------
(* getRepositoriesFromS3 and streamToString *)

\* GetObject for repositories.json is sent, whatever INSIGHTS_BUCKET is
GetRepositoriesFromS3(r) ==
    /\ pc[r] = "authed"
    /\ Begin(r, "LoadRepositories", "load_wait")
    /\ calls' = [calls EXCEPT ![r].getObject = @ + 1]
    /\ UNCHANGED <<github, env, clock, ticksLeft, s3, tmp, githubToken, repositories, fetch, insights, w,
                   answers>>

\* A function that answers a failed read with an empty list.
RepositoriesResultEmptyOnError(outcome) ==
    IF outcome = "end"
    THEN LET parsed == JSONparse(s3[RepositoriesKey].text)
         IN  IF parsed.ok THEN parsed.value ELSE JsonArray(<<>>)
    ELSE JsonArray(<<>>)

\* How reading the object can end: send throws ("send"), the response has no
\* Body ("nobody"), the stream emits an error ("stream") or ends ("end").
\* Without a bucket name, or without the object, send throws; it can also
\* throw for an object that is there.
ReadOutcomes ==
    IF Falsy(env.INSIGHTS_BUCKET) \/ RepositoriesKey \notin DOMAIN s3
    THEN {"send"}
    ELSE {"send", s3[RepositoriesKey].body}

FallbackList == JsonArray(<<JsonObject(FallbackRef)>>)

\* The value the function returns when the read ended as outcome
RepositoriesResult(outcome) ==
    IF outcome = "end"
    THEN LET parsed == JSONparse(s3[RepositoriesKey].text)
         IN  IF parsed.ok THEN parsed.value ELSE FallbackList
    ELSE FallbackList

\* The read ends; the function returns.
GetObjectResponse(r) ==
    /\ pc[r] = "load_wait"
    /\ \E outcome \in ReadOutcomes :
         /\ answers' = [answers EXCEPT ![r].getObject = outcome]
         /\ repositories' = [repositories EXCEPT ![r] = RepositoriesResult(outcome)]
    /\ Complete(r, "LoadRepositories", AfterStage("LoadRepositories"))
    /\ UNCHANGED <<github, env, clock, ticksLeft, s3, tmp, githubToken, fetch, insights, w, calls>>


-----------------------------------------------------------------------------
(* fetchRepositoryInsights *)

\* `${owner}/${repo}`
RepoName(ref) == ref.owner \o "/" \o ref.repo

\* items.filter(keep)
Filter(items, keep(_)) == SelectSeq(items, keep)

\* endDate.getTime() - startDate.getTime(), in milliseconds
Elapsed(startDate, endDate) ==
    (endDate.day - startDate.day) * MsPerDay + (endDate.ms - startDate.ms)

\* Math.round(num / den) for a positive den: the nearest integer, a half
\* going up
MathRound(num, den) == (2 * num + den) \div (2 * den)

\* Math.round without the rounding: the hours are cut off.
calculateAverageTimeTruncating(items, startDateKey, endDateKey) ==
    IF Len(items) = 0 THEN 0
    ELSE LET totalTime ==
                 SeqSum([i \in 1..Len(items) |->
                            Elapsed(items[i][startDateKey], items[i][endDateKey])])
         IN  totalTime \div (Len(items) * MsPerHour)

calculateAverageTime(items, startDateKey, endDateKey) ==
    IF Len(items) = 0 THEN 0
    ELSE LET totalTime ==
                 SeqSum([i \in 1..Len(items) |->
                            Elapsed(items[i][startDateKey], items[i][endDateKey])])
         IN  MathRound(totalTime, Len(items) * MsPerHour)

\* A filter that looks at the state of an issue only.
IsClosedIssueByState(issue) == issue.state = "closed"

\* (issue) => issue.state === 'closed' && !issue.pull_request
IsClosedIssue(issue) == issue.state = "closed" /\ Falsy(issue.pull_request)

\* (pr) => pr.state === 'open'
IsOpenPull(pr) == pr.state = "open"
\* (pr) => pr.merged_at !== null
IsMergedPull(pr) == pr.merged_at # JsonNull
\* (pr) => pr.state === 'closed' && pr.merged_at === null
IsClosedPull(pr) == pr.state = "closed" /\ pr.merged_at = JsonNull

\* week.total || 0
TotalOrZero(week) == IF week.total = 0 THEN 0 ELSE week.total

\* data.slice(-4)
LastFour(data) == SubSeq(data, IF Len(data) > 4 THEN Len(data) - 3 ELSE 1, Len(data))

\* A month that is the sum of the first four buckets.
CommitsOfFirstFour(commitsData) ==
    IF commitsData.json = "array" /\ Len(commitsData.items) > 0
    THEN LET data == commitsData.items
         IN  [commitsLastWeek |-> TotalOrZero(data[Len(data)]),
              commitsLastMonth |->
                  SeqSum([i \in 1..(IF Len(data) > 4 THEN 4 ELSE Len(data)) |->
                             TotalOrZero(data[i])])]
    ELSE [commitsLastWeek |-> 0, commitsLastMonth |-> 0]

\* commitsLastWeek and commitsLastMonth: both 0 unless the data is a
\* non-empty array
Commits(commitsData) ==
    IF commitsData.json = "array" /\ Len(commitsData.items) > 0
    THEN LET data == commitsData.items
         IN  [commitsLastWeek |-> TotalOrZero(data[Len(data)]),
              commitsLastMonth |->
                  SeqSum([i \in 1..Len(LastFour(data)) |-> TotalOrZero(LastFour(data)[i])])]
    ELSE [commitsLastWeek |-> 0, commitsLastMonth |-> 0]

\* The record returned for a repository whose six calls are fulfilled:
\* releasesData is the release, or Null when the .catch of getLatestRelease
\* turned an error into null; the other data is what GitHub holds.
BuildRecord(ref, releasesData) ==
    LET repoData == github.repo
        issuesData == github.issues
        pullRequestsData == github.pulls
        commits == Commits(github.commits)
    IN  [repoName |-> RepoName(ref),
         description |-> OrElse(repoData.description, ""),
         stars |-> repoData.stargazers_count,
         forks |-> repoData.forks_count,
         openIssues |-> repoData.open_issues_count,
         closedIssues |-> Len(Filter(issuesData, IsClosedIssue)),
         openPullRequests |-> Len(Filter(pullRequestsData, IsOpenPull)),
         mergedPullRequests |-> Len(Filter(pullRequestsData, IsMergedPull)),
         closedPullRequests |-> Len(Filter(pullRequestsData, IsClosedPull)),
         watchers |-> repoData.subscribers_count,
         language |-> OrElse(repoData.language, ""),
         topics |-> repoData.topics,
         license |-> IF repoData.license = JsonNull THEN "No License"
                     ELSE OrElse(repoData.license.name, "No License"),
         size |-> repoData.size,
         createdAt |-> repoData.created_at,
         updatedAt |-> repoData.updated_at,
         pushedAt |-> repoData.pushed_at,
         latestRelease |-> IF releasesData = Null THEN "No releases"
                           ELSE OrElse(releasesData.name, "No releases"),
         latestReleaseDate |-> IF releasesData = Null THEN ""
                               ELSE OrElse(releasesData.published_at, ""),
         contributorsCount |-> Len(github.contributors),
         commitsLastWeek |-> commits.commitsLastWeek,
         commitsLastMonth |-> commits.commitsLastMonth,
         averageTimeToMergePR |->
             calculateAverageTime(Filter(pullRequestsData, IsMergedPull),
                                  "created_at", "merged_at"),
         averageTimeToClosePR |->
             calculateAverageTime(Filter(pullRequestsData, IsClosedPull),
                                  "created_at", "closed_at"),
         averageTimeToCloseIssue |->
             calculateAverageTime(Filter(issuesData, IsClosedIssue),
                                  "created_at", "closed_at")]

NoSecondary == [c \in SecondaryCalls |-> "none"]

\* A callback that sends all six calls in one Promise.all.
StartEntryAllAtOnce(item) ==
    IF item.json = "object"
    THEN [ref |-> item.value, meta |-> "inflight",
          sec |-> [c \in SecondaryCalls |-> "inflight"], result |-> Pending]
    ELSE [ref |-> [owner |-> Undefined, repo |-> Undefined], meta |-> "none",
          sec |-> NoSecondary, result |-> [kind |-> "rejected"]]

\* The callback of repositories.map on one element, up to its first await:
\* destructuring null throws, so the promise of that element is rejected;
\* otherwise repos.get is sent.
StartEntry(item) ==
    IF item.json = "object"
    THEN [ref |-> item.value, meta |-> "inflight", sec |-> NoSecondary, result |-> Pending]
    ELSE [ref |-> [owner |-> Undefined, repo |-> Undefined], meta |-> "none",
          sec |-> NoSecondary, result |-> [kind |-> "rejected"]]

\* fetchRepositoryInsights is called: repositories.map(...) runs every callback
\* up to its first await.  A value without map, or a rejected element promise,
\* makes the function throw, and handler with it.
FetchRepositoryInsights(r) ==
    /\ pc[r] = "loaded"
    /\ IF repositories[r].json # "array"
       THEN /\ ThrowAtStart(r, "Collect", "TypeError: repositories.map is not a function")
            /\ UNCHANGED fetch
       ELSE LET items == repositories[r].items
                started == [i \in 1..Len(items) |-> StartEntry(items[i])]
            IN  /\ fetch' = [fetch EXCEPT ![r] = started]
                /\ IF \E i \in 1..Len(items) : started[i].result.kind = "rejected"
                   THEN ThrowAtStart(r, "Collect", "TypeError: Cannot destructure property 'owner'")
                   ELSE Begin(r, "Collect", "collecting")
    /\ UNCHANGED <<github, env, clock, ticksLeft, s3, tmp, githubToken, repositories, insights, w, calls,
                   answers>>

\* repos.get of entry i answers: the five other calls are sent, or the catch
\* block returns null.
MetaResponse(r, i) ==
    /\ pc[r] = "collecting"
    /\ i \in 1..Len(fetch[r])
    /\ fetch[r][i].meta = "inflight"
    /\ \E ok \in BOOLEAN :
         fetch' = [fetch EXCEPT ![r][i] =
                     IF ok
                     THEN [@ EXCEPT !.meta = "ok", !.sec = [c \in SecondaryCalls |-> "inflight"]]
                     ELSE [@ EXCEPT !.meta = "err", !.result = Null]]
    /\ UNCHANGED <<github, env, clock, ticksLeft, s3, tmp, pc, githubToken, repositories, insights, w,
                   err, stageLog, calls, answers>>

\* How a call can end
ApiOutcomes == {"ok", "notfound", "error"}

\* getLatestRelease without its .catch: its error rejects like any other.
SettledWithoutCatch(c, outcome) == IF outcome = "ok" THEN "ok" ELSE "err"

\* The state of call c once it ended as outcome: an error of getLatestRelease
\* is caught and becomes null, an error of another call rejects the call.
Settled(c, outcome) ==
    IF outcome = "ok" THEN "ok"
    ELSE IF c = "release" THEN outcome
    ELSE "err"

\* the value the promise of call c has in the inner Promise.all
IsFulfilled(c, status) ==
    IF c = "release" THEN status \in {"ok", "notfound", "error"} ELSE status = "ok"

\* The result of an entry given the states of its five calls: the inner
\* Promise.all rejects with the first rejection (catch: null) and is fulfilled
\* when all five are; then the record is built.
EntryResult(entry, sec) ==
    IF entry.result # Pending THEN entry.result
    ELSE IF \E c \in SecondaryCalls : sec[c] = "err" THEN Null
    ELSE IF \A c \in SecondaryCalls : IsFulfilled(c, sec[c])
         THEN Fulfilled(BuildRecord(entry.ref, IF sec["release"] = "ok" THEN github.release ELSE Null))
    ELSE Pending

\* What the entry keeps of its five calls once its result is known: a
\* rejected Promise.all discards the values of the other four calls, and
\* their later answers are never read.
Kept(sec, result) ==
    IF result = Null
    THEN [c \in SecondaryCalls |-> IF sec[c] = "err" THEN "err" ELSE "dropped"]
    ELSE sec

\* One of the five calls of entry i answers.
SecondaryResponse(r, i, c) ==
    /\ pc[r] = "collecting"
    /\ i \in 1..Len(fetch[r])
    /\ fetch[r][i].sec[c] = "inflight"
    /\ \E outcome \in ApiOutcomes :
         LET sec == [fetch[r][i].sec EXCEPT ![c] = Settled(c, outcome)]
             result == EntryResult(fetch[r][i], sec)
         IN  fetch' = [fetch EXCEPT ![r][i] =
                         [@ EXCEPT !.sec = Kept(sec, result), !.result = result]]
    /\ UNCHANGED <<github, env, clock, ticksLeft, s3, tmp, pc, githubToken, repositories, insights, w,
                   err, stageLog, calls, answers>>

\* A collection that stops at the first repository that failed.
RECURSIVE NonNullUntilFailure(_)
NonNullUntilFailure(entries) ==
    IF entries = <<>> THEN <<>>
    ELSE IF Head(entries).result.kind = "record"
         THEN <<Head(entries).result.rec>> \o NonNullUntilFailure(Tail(entries))
    ELSE <<>>

\* A collection that puts each record in front of those collected before.
RECURSIVE NonNullNewestFirst(_)
NonNullNewestFirst(entries) ==
    IF entries = <<>> THEN <<>>
    ELSE IF Head(entries).result.kind = "record"
         THEN NonNullNewestFirst(Tail(entries)) \o <<Head(entries).result.rec>>
    ELSE NonNullNewestFirst(Tail(entries))

\* .filter((insight) => insight !== null) over the results, in list order
RECURSIVE NonNull(_)
NonNull(entries) ==
    IF entries = <<>> THEN <<>>
    ELSE IF Head(entries).result.kind = "record"
         THEN <<Head(entries).result.rec>> \o NonNull(Tail(entries))
    ELSE NonNull(Tail(entries))

\* A wait that ends with the first entry that has a result.
FirstSettled(entries) ==
    entries = <<>> \/ \E i \in 1..Len(entries) : entries[i].result # Pending

\* Promise.all over the promises of the entries is fulfilled once every one
\* of them is (none rejects: each callback catches its errors)
AllSettled(entries) == \A i \in 1..Len(entries) : entries[i].result # Pending

\* The outer Promise.all is fulfilled once every entry has a result; the
\* function returns the filtered list.
FetchSettled(r) ==
    /\ pc[r] = "collecting"
    /\ AllSettled(fetch[r])
    /\ insights' = [insights EXCEPT ![r] = NonNull(fetch[r])]
    /\ Complete(r, "Collect", AfterStage("Collect"))
    /\ UNCHANGED <<github, env, clock, ticksLeft, s3, tmp, githubToken, repositories, fetch, w, calls,
                   answers>>


-----------------------------------------------------------------------------
(* uploadInsightsToS3 *)

\* The month without the + 1 that makes getUTCMonth 1-based.
MonthOfZeroBased(now) == Join(PadStart(NumToChars(getUTCMonth(now)), 2))

\* const month = String(now.getUTCMonth() + 1).padStart(2, '0')
MonthOf(now) == Join(PadStart(NumToChars(getUTCMonth(now) + 1), 2))
\* const day = String(now.getUTCDate()).padStart(2, '0')
DayOf(now) == Join(PadStart(NumToChars(getUTCDate(now)), 2))
\* const timestamp = now.toISOString().replace(/[:.]/g, '')
TimestampOf(now) == Join(StripPunct(toISOString(now)))

\* the locals computed from the one reading of the clock
Locals(now) ==
    [NoLocals EXCEPT !.now = now, !.year = getUTCFullYear(now), !.month = MonthOf(now),
                     !.day = DayOf(now), !.timestamp = TimestampOf(now)]

\* `github-insights/year=${year}/month=${month}/day=${day}/insights_${timestamp}.parquet`
ObjectKey(l) ==
    "github-insights/year=" \o Join(NumToChars(l.year)) \o "/month=" \o l.month
        \o "/day=" \o l.day \o "/insights_" \o l.timestamp \o ".parquet"

\* A date put together from the numbers, without the padding.
RowWithUnpaddedDate(insight, l) ==
    [f \in DOMAIN insight \cup {"date"} |->
        IF f = "date"
        THEN Join(NumToChars(l.year)) \o "-" \o Join(NumToChars(getUTCMonth(l.now) + 1))
                 \o "-" \o Join(NumToChars(getUTCDate(l.now)))
        ELSE insight[f]]

\* { ...insight, date: `${year}-${month}-${day}` }
Row(insight, l) ==
    [f \in DOMAIN insight \cup {"date"} |->
        IF f = "date" THEN Join(NumToChars(l.year)) \o "-" \o l.month \o "-" \o l.day
        ELSE insight[f]]

\* The function up to its first await: the check of the setting, the reading
\* of the clock, the schema, and the opening of the temporary file.  The
\* promises of fetchRepositoryInsights are no longer referenced from here on.
UploadInsightsToS3(r) ==
    /\ pc[r] = "collected"
    /\ IF Falsy(env.INSIGHTS_BUCKET)
       THEN /\ ThrowAtStart(r, "Write", "INSIGHTS_BUCKET environment variable is not set")
            /\ UNCHANGED w
       ELSE /\ Begin(r, "Write", "w_open")
            /\ w' = [w EXCEPT ![r] = Locals(clock)]
    /\ fetch' = [fetch EXCEPT ![r] = <<>>]
    /\ UNCHANGED <<github, env, clock, ticksLeft, s3, tmp, githubToken, repositories, insights, calls,
                   answers>>

\* ParquetWriter.openFile ends: the file is created or truncated.
OpenFileDone(r) ==
    /\ pc[r] = "w_open"
    /\ \E ok \in BOOLEAN :
         /\ answers' = [answers EXCEPT ![r].openFile = Answer(ok)]
         /\ IF ok
            THEN /\ tmp' = [exists |-> TRUE, rows |-> <<>>]
                 /\ Goto(r, "w_rows")
            ELSE /\ Throw(r, "Write", "openFile failed")
                 /\ UNCHANGED tmp
    /\ UNCHANGED <<github, env, clock, ticksLeft, s3, githubToken, repositories, fetch, insights, w, calls>>

\* The loop over the batch: every row is handed to the writer, which buffers
\* it; appendRow throws when a row does not fit the schema.  Then close is
\* called.
AppendRows(r) ==
    /\ pc[r] = "w_rows"
    /\ \E ok \in BOOLEAN :
         /\ answers' = [answers EXCEPT ![r].appendRow = Answer(ok)]
         /\ IF ok
            THEN /\ w' = [w EXCEPT ![r].rows =
                            [i \in 1..Len(insights[r]) |-> Row(insights[r][i], w[r])]]
                 /\ Goto(r, "w_close")
            ELSE /\ Throw(r, "Write", "appendRow failed")
                 /\ UNCHANGED w
    /\ UNCHANGED <<github, env, clock, ticksLeft, s3, tmp, githubToken, repositories, fetch, insights, calls>>

\* writer.close ends: the buffered rows are in the file.  Then readFile is
\* called.
CloseDone(r) ==
    /\ pc[r] = "w_close"
    /\ \E ok \in BOOLEAN :
         /\ answers' = [answers EXCEPT ![r].close = Answer(ok)]
         /\ IF ok
            THEN /\ tmp' = [exists |-> TRUE, rows |-> w[r].rows]
                 /\ Goto(r, "w_read")
            ELSE /\ Throw(r, "Write", "close failed")
                 /\ UNCHANGED tmp
    /\ UNCHANGED <<github, env, clock, ticksLeft, s3, githubToken, repositories, fetch, insights, w, calls>>

\* readFile ends: the key is built and PutObject is sent.
ReadFileDone(r) ==
    /\ pc[r] = "w_read"
    /\ \E ok \in {b \in BOOLEAN : b => tmp.exists} :
         /\ answers' = [answers EXCEPT ![r].readFile = Answer(ok)]
         /\ IF ok
            THEN /\ w' = [w EXCEPT ![r].fileContent = tmp.rows, ![r].key = ObjectKey(w[r])]
                 /\ calls' = [calls EXCEPT ![r].putObject = @ + 1]
                 /\ Goto(r, "w_put")
            ELSE /\ Throw(r, "Write", "readFile failed")
                 /\ UNCHANGED <<w, calls>>
    /\ UNCHANGED <<github, env, clock, ticksLeft, s3, tmp, githubToken, repositories, fetch, insights>>

\* the bucket after PutObject of body under key
PutObject(bucket, key, body) ==
    [k \in DOMAIN bucket \cup {key} |-> IF k = key THEN body ELSE bucket[k]]

\* S3 answers PutObject: the object is stored and the function returns, or
\* the error leaves the bucket as it was.
PutObjectResponse(r) ==
    /\ pc[r] = "w_put"
    /\ \E ok \in BOOLEAN :
         /\ answers' = [answers EXCEPT ![r].putObject = Answer(ok)]
         /\ IF ok
            THEN /\ s3' = PutObject(s3, w[r].key, [rows |-> w[r].fileContent])
                 /\ Complete(r, "Write", AfterStage("Write"))
            ELSE /\ Throw(r, "Write", "PutObject failed")
                 /\ UNCHANGED s3
    /\ UNCHANGED <<github, env, clock, ticksLeft, tmp, githubToken, repositories, fetch, insights, w, calls>>

-----------------------------------------------------------------------------
(* The clock *)

Tick ==
    /\ ticksLeft > 0
    /\ clock' = NextMs(clock)
    /\ ticksLeft' = ticksLeft - 1
    /\ UNCHANGED <<github, env, s3, tmp, pc, githubToken, repositories, fetch, insights, w, err,
                   stageLog, calls, answers>>

-----------------------------------------------------------------------------
(* Specifications *)

Step(r) ==
    \/ GetGitHubToken(r)
    \/ SecretResponse(r)
    \/ TestGitHubAuthentication(r)
    \/ AuthResponse(r)
    \/ GetRepositoriesFromS3(r)
    \/ GetObjectResponse(r)
    \/ FetchRepositoryInsights(r)
    \/ \E i \in 1..Len(fetch[r]) : MetaResponse(r, i)
    \/ \E i \in 1..Len(fetch[r]) : \E c \in SecondaryCalls : SecondaryResponse(r, i, c)
    \/ FetchSettled(r)
    \/ UploadInsightsToS3(r)
    \/ OpenFileDone(r)
    \/ AppendRows(r)
    \/ CloseDone(r)
    \/ ReadFileDone(r)
    \/ PutObjectResponse(r)

Next == Tick \/ \E r \in Runs : Step(r)

\* how the Body of a GetObject response can behave
BodyKinds == {"end", "nobody", "stream"}

\* the bucket before any invocation: repositories.json missing, or holding
\* one of texts, with a Body of one of the kinds
Buckets(texts, kinds) ==
    {<<>>} \cup { [k \in {RepositoriesKey} |-> [text |-> t, body |-> b]] :
                     t \in texts, b \in kinds }

InitRun(started) ==
    /\ pc = [r \in Runs |-> IF r \in started THEN "start" ELSE "idle"]
    /\ githubToken = [r \in Runs |-> Undefined]
    /\ repositories = [r \in Runs |-> NotLoaded]
    /\ fetch = [r \in Runs |-> <<>>]
    /\ insights = [r \in Runs |-> <<>>]
    /\ w = [r \in Runs |-> NoLocals]
    /\ err = [r \in Runs |-> ""]
    /\ stageLog = [r \in Runs |-> <<>>]
    /\ calls = [r \in Runs |-> NoCalls]
    /\ answers = [r \in Runs |-> NoAnswers]
    /\ tmp = [exists |-> FALSE, rows |-> <<>>]

\* One invocation, in any configuration, over a repository list of at most
\* one entry or a value that is no list.
Init ==
    /\ github = SampleGitHub
    /\ env \in EnvConfigs
    /\ s3 \in Buckets(RepositoryTexts, BodyKinds)
    /\ clock = [day |-> 20088, ms |-> 86399998]
    /\ ticksLeft = 1
    /\ InitRun({"run1"})

Spec == Init /\ [][Next]_vars

\* One invocation, fully configured, over a list of two entries.
InitFetch ==
    /\ github = SampleGitHub
    /\ env = EnvComplete
    /\ s3 \in Buckets(TwoEntryTexts, {"end"}) \ {<<>>}
    /\ clock = [day |-> 20088, ms |-> 86399998]
    /\ ticksLeft = 1
    /\ InitRun({"run1"})

SpecFetch == InitFetch /\ [][Next]_vars

\* One invocation, fully configured, started at any of the instants, while
\* the clock runs.
InitClock ==
    /\ github = SampleGitHub
    /\ env = EnvComplete
    /\ s3 \in Buckets({"[]", "[{\"owner\":\"octo\",\"repo\":\"alpha\"}]"}, {"end"})
    /\ clock \in StartInstants
    /\ ticksLeft = MaxTicks
    /\ InitRun({"run1"})

SpecClock == InitClock /\ [][Next]_vars

\* Two invocations in progress at the same time in one execution environment.
InitOverlap ==
    /\ github = SampleGitHub
    /\ env = EnvComplete
    /\ s3 \in Buckets({"[]"}, {"end"}) \ {<<>>}
    /\ clock = [day |-> 20088, ms |-> 86399998]
    /\ ticksLeft = 1
    /\ InitRun(Runs)

SpecOverlap == InitOverlap /\ [][Next]_vars

\* One invocation, fully configured, over a list of one repository about
\* which GitHub holds any of the states considered.
InitMetrics ==
    /\ github \in GitHubStates
    /\ env = EnvComplete
    /\ s3 = [k \in {RepositoriesKey} |->
                [text |-> "[{\"owner\":\"octo\",\"repo\":\"alpha\"}]", body |-> "end"]]
    /\ clock = [day |-> 20088, ms |-> 86399998]
    /\ ticksLeft = 1
    /\ InitRun({"run1"})

SpecMetrics == InitMetrics /\ [][Next]_vars


-----------------------------------------------------------------------------
(* Properties *)

Range(seq) == {seq[j] : j \in 1..Len(seq)}
Last(seq) == seq[Len(seq)]
StartsOf(log) == SelectSeq(log, LAMBDA e : e[2] = "start")

\* the calls sent to the GitHub repository API for the entries of run r
RepoApiCalls(r) ==
    SeqSum([i \in 1..Len(fetch[r]) |->
              (IF fetch[r][i].meta = "none" THEN 0 ELSE 1)
              + Cardinality({c \in SecondaryCalls : fetch[r][i].sec[c] # "none"})])

\* C1: in every run the stages start in the order ObtainToken,
\* AuthenticateClient, LoadRepositories, Collect, Write; a stage starts only
\* right after the stage before it has ended without error, and so do the
\* calls it sends; no stage starts twice; the run is done exactly when Write
\* has ended without error.
C1_StagesInFixedOrder ==
    \A r \in Runs :
        LET log == stageLog[r]
            starts == StartsOf(log)
        IN  /\ Len(starts) <= Len(Stages)
            /\ \A k \in 1..Len(starts) : starts[k][1] = Stages[k]
            /\ \A j \in 1..Len(log) :
                 log[j][2] = "start" =>
                    LET k == Len(StartsOf(SubSeq(log, 1, j)))
                    IN  k > 1 => /\ j > 1
                                 /\ log[j - 1] = <<Stages[k - 1], "ok">>
            /\ calls[r].secret <= 1 /\ calls[r].auth <= 1
            /\ calls[r].getObject <= 1 /\ calls[r].putObject <= 1
            /\ calls[r].secret > 0 => <<"ObtainToken", "start">> \in Range(log)
            /\ calls[r].auth > 0 => <<"ObtainToken", "ok">> \in Range(log)
            /\ calls[r].getObject > 0 => <<"AuthenticateClient", "ok">> \in Range(log)
            /\ RepoApiCalls(r) > 0 => <<"LoadRepositories", "ok">> \in Range(log)
            /\ calls[r].putObject > 0 => <<"Collect", "ok">> \in Range(log)
            /\ pc[r] = "done" <=> (log # <<>> /\ Last(log) = <<"Write", "ok">>)

\* a run that went through all five stages
C1_Witness ==
    /\ pc["run1"] = "done"
    /\ Len(stageLog["run1"]) = 10
    /\ calls["run1"] = [secret |-> 1, auth |-> 1, getObject |-> 1, putObject |-> 1]

\* getGitHubToken throws: the setting is missing, the request failed, or the
\* answer holds no token
ObtainTokenFails(r) ==
    \/ Falsy(env.GITHUB_TOKEN_SECRET_NAME) /\ pc[r] \notin {"idle", "start"}
    \/ /\ answers[r].secret # NoResponse
       /\ \/ ~answers[r].secret.ok
          \/ Falsy(answers[r].secret.SecretString)
          \/ Falsy(answers[r].secret.GITHUB_TOKEN)

AuthenticateFails(r) == answers[r].auth = "error"

\* uploadInsightsToS3 throws: the bucket setting is missing when it is called,
\* or writing the file, reading it back or the upload fails
WriteFails(r) ==
    \/ Falsy(env.INSIGHTS_BUCKET) /\ <<"Write", "start">> \in Range(stageLog[r])
    \/ \E f \in {"openFile", "appendRow", "close", "readFile", "putObject"} :
         answers[r][f] = "error"

Aborted(r, stage) ==
    /\ pc[r] = "failed"
    /\ err[r] # ""
    /\ Last(stageLog[r]) = <<stage, "fail">>

\* C2: a failure in ObtainToken, AuthenticateClient or Write ends the run in
\* failure with the error thrown out of handler, and no later stage runs;
\* after a failure in ObtainToken or AuthenticateClient the run has read no
\* repository list, sent no repository call and uploaded nothing.
C2_FatalStagesAbort ==
    \A r \in Runs :
        /\ ObtainTokenFails(r) => Aborted(r, "ObtainToken")
        /\ AuthenticateFails(r) => Aborted(r, "AuthenticateClient")
        /\ WriteFails(r) => Aborted(r, "Write")
        /\ ObtainTokenFails(r) \/ AuthenticateFails(r) =>
              /\ calls[r].getObject = 0
              /\ repositories[r] = NotLoaded
              /\ RepoApiCalls(r) = 0
              /\ calls[r].putObject = 0
              /\ DOMAIN s3 \subseteq {RepositoriesKey}

\* GitHub refused the token
C2_Witness ==
    /\ AuthenticateFails("run1")
    /\ pc["run1"] = "failed"
    /\ err["run1"] = "Failed to authenticate with GitHub"


\* C3: whatever getRepositoriesFromS3 returned and however the API calls end,
\* no run fails in Collect.
C3_CollectNeverAborts ==
    \A r \in Runs : <<"Collect", "fail">> \notin Range(stageLog[r])

\* "{owner}/{repo}" of a list element
NameOf(item) == item.value.owner \o "/" \o item.value.repo

HasRecord(entry) == entry.result.kind = "record"

\* the number of entries up to the i-th that have a record
Rank(entries, i) == Cardinality({j \in 1..i : HasRecord(entries[j])})

\* C4: when fetchRepositoryInsights returns, every record of the batch is
\* named "{owner}/{repo}" after an entry of the list whose metadata call
\* succeeded, an entry whose metadata call failed has no record, and every
\* entry that has a record finds it in the batch, built from its own answers,
\* whatever happened to the other entries.
C4_RecordsOfListedRepositories ==
    \A r \in Runs :
        pc[r] = "collected" =>
            LET items == repositories[r].items
                entries == fetch[r]
                batch == insights[r]
                kept == {i \in 1..Len(entries) : HasRecord(entries[i])}
            IN  /\ Len(entries) = Len(items)
                /\ Len(batch) = Cardinality(kept)
                /\ \A k \in 1..Len(batch) :
                     \E i \in kept : /\ batch[k].repoName = NameOf(items[i])
                                     /\ entries[i].meta = "ok"
                /\ \A i \in 1..Len(entries) : entries[i].meta = "err" => i \notin kept
                /\ \A i \in kept :
                     LET rec == batch[Rank(entries, i)]
                     IN  /\ rec.repoName = NameOf(items[i])
                         /\ rec.latestRelease =
                              IF entries[i].sec["release"] = "ok" THEN SampleRelease.name
                              ELSE "No releases"

\* the first repository failed in its metadata call, the second is in the batch
C4_Witness ==
    /\ pc["run1"] = "collected"
    /\ Len(fetch["run1"]) = 2
    /\ fetch["run1"][1].meta = "err"
    /\ HasRecord(fetch["run1"][2])
    /\ Len(insights["run1"]) = 1
    /\ insights["run1"][1].repoName = "octo/beta"

PlainCalls == SecondaryCalls \ {"release"}

C6_LoadNeverFails ==
    \A r \in Runs :
        /\ <<"LoadRepositories", "fail">> \notin Range(stageLog[r])
        /\ answers[r].getObject = "none" => repositories[r] = NotLoaded
        /\ answers[r].getObject # "none" =>
              /\ <<"LoadRepositories", "ok">> \in Range(stageLog[r])
              /\ pc[r] = "loaded" \/ <<"Collect", "start">> \in Range(stageLog[r])
              /\ repositories[r] =
                    IF /\ answers[r].getObject = "end"
                       /\ JSONparse(s3[RepositoriesKey].text).ok
                    THEN JSONparse(s3[RepositoriesKey].text).value
                    ELSE [json |-> "array",
                          items |-> << [json |-> "object",
                                        value |-> [owner |-> "aws-samples",
                                                   repo |-> "anthropic-on-aws"]] >>]

\* the object does not parse, and the run collects for the fallback repository
C6_Witness ==
    /\ RepositoriesKey \in DOMAIN s3
    /\ answers["run1"].getObject = "end"
    /\ ~JSONparse(s3[RepositoriesKey].text).ok
    /\ pc["run1"] = "collecting"
    /\ Len(fetch["run1"]) = 1
    /\ fetch["run1"][1].ref = [owner |-> "aws-samples", repo |-> "anthropic-on-aws"]

\* C7: a run whose write fails ends in failure with the error thrown out of
\* handler, and the bucket holds no object besides repositories.json: the
\* failed run stored nothing.
C7_FailedWriteStoresNothing ==
    \A r \in Runs :
        WriteFails(r) =>
            /\ pc[r] = "failed"
            /\ err[r] \in {"INSIGHTS_BUCKET environment variable is not set",
                           "openFile failed", "appendRow failed", "close failed",
                           "readFile failed", "PutObject failed"}
            /\ answers[r].putObject # "ok"
            /\ DOMAIN s3 \subseteq {RepositoriesKey}

\* the upload call failed
C7_Witness ==
    /\ answers["run1"].putObject = "error"
    /\ pc["run1"] = "failed"
    /\ w["run1"].key # ""
    /\ w["run1"].key \notin DOMAIN s3

\* the objects written by the runs
OutputKeys == DOMAIN s3 \ {RepositoriesKey}

\* C8: two runs that both succeeded wrote under two different keys, and the
\* bucket holds both objects.
C8_DistinctKeys ==
    \A r1, r2 \in Runs :
        r1 # r2 /\ pc[r1] = "done" /\ pc[r2] = "done" =>
            /\ w[r1].key # w[r2].key
            /\ Cardinality(OutputKeys) = 2


IsLeapYear(y) == (y % 4 = 0 /\ y % 100 # 0) \/ y % 400 = 0

DaysInMonth(y, m) ==
    IF m = 2 THEN (IF IsLeapYear(y) THEN 29 ELSE 28)
    ELSE IF m \in {4, 6, 9, 11} THEN 30 ELSE 31

LeapDaysBefore(y) == (y - 1) \div 4 - (y - 1) \div 100 + (y - 1) \div 400

\* the number of days from 1970-01-01 to the day y-m-d
DayNumber(y, m, d) ==
    365 * (y - 1970) + LeapDaysBefore(y) - LeapDaysBefore(1970)
        + SeqSum([k \in 1..(m - 1) |-> DaysInMonth(y, k)]) + (d - 1)

\* the UTC calendar date of the instant t
UTCDateOf(t) ==
    CHOOSE c \in [year : 2020..2030, month : 1..12, date : 1..31] :
        /\ c.date <= DaysInMonth(c.year, c.month)
        /\ DayNumber(c.year, c.month, c.date) = t.day

TwoDigits(n) == IF n < 10 THEN "0" \o ToString(n) ELSE ToString(n)
ThreeDigits(n) == IF n < 100 THEN "0" \o TwoDigits(n) ELSE ToString(n)

\* the key the specification gives for an object written at the instant t
KeyFor(t) ==
    LET c == UTCDateOf(t)
        date == ToString(c.year) \o "-" \o TwoDigits(c.month) \o "-" \o TwoDigits(c.date)
        time == TwoDigits(t.ms \div 3600000) \o TwoDigits((t.ms \div 60000) % 60)
                    \o TwoDigits((t.ms \div 1000) % 60) \o ThreeDigits(t.ms % 1000)
    IN  "github-insights/year=" \o ToString(c.year) \o "/month=" \o TwoDigits(c.month)
            \o "/day=" \o TwoDigits(c.date) \o "/insights_" \o date \o "T" \o time \o "Z"
            \o ".parquet"

NotAfter(t, u) == t.day < u.day \/ (t.day = u.day /\ t.ms <= u.ms)

\* C9: the key a run uploads under is
\* github-insights/year=YYYY/month=MM/day=DD/insights_<timestamp>.parquet with
\* YYYY, MM (two digits) and DD (two digits) the UTC date of the one instant
\* the run read from the clock, and <timestamp> the ISO form of that same
\* instant without ':' and '.'; every object the run leaves in the bucket has
\* that key.
C9_KeyOfOneInstant ==
    /\ \A r \in Runs :
          pc[r] \in {"w_put", "done"} =>
              /\ NotAfter(w[r].now, clock)
              /\ w[r].key = KeyFor(w[r].now)
              /\ pc[r] = "done" => w[r].key \in OutputKeys
    /\ \A k \in OutputKeys : \E r \in Runs : pc[r] = "done" /\ k = w[r].key

\* a run that read the clock at 2025-01-01T00:00:00.000Z, after the clock
\* passed midnight, and uploaded
C9_Witness ==
    /\ pc["run1"] = "done"
    /\ w["run1"].now = [day |-> 20089, ms |-> 0]
    /\ OutputKeys =
         {"github-insights/year=2025/month=01/day=01/insights_2025-01-01T000000000Z.parquet"}

\* C10: with the secret name or the bucket name missing, the run sends no
\* call to the secret store, to the GitHub API or to the bucket.
C10_NoCallWithoutSettings ==
    \A r \in Runs :
        Falsy(env.GITHUB_TOKEN_SECRET_NAME) \/ Falsy(env.INSIGHTS_BUCKET) =>
            /\ calls[r] = NoCalls
            /\ RepoApiCalls(r) = 0

\* whether the stage has returned normally in the invocation r
Returned(r, stage) == <<stage, "ok">> \in Range(stageLog[r])

\* the answers of the secret store that carry a usable token
HasToken(resp) ==
    /\ resp.ok
    /\ resp.SecretString \notin {Undefined, ""}
    /\ resp.GITHUB_TOKEN \notin {Undefined, ""}

\* C11: an invocation asks the secret store at most once; getGitHubToken
\* returns only when the answer has a secret string whose GITHUB_TOKEN
\* field is present and non-empty, and then returns that field; on every other
\* answer it fails, and the invocation with it.
C11_TokenOnlyFromNonEmptyField ==
    \A r \in Runs :
        /\ calls[r].secret <= 1
        /\ Returned(r, "ObtainToken") =>
              /\ HasToken(answers[r].secret)
              /\ githubToken[r] = answers[r].secret.GITHUB_TOKEN
        /\ (answers[r].secret # NoResponse /\ ~HasToken(answers[r].secret)) =>
              /\ pc[r] = "failed"
              /\ Last(stageLog[r]) = <<"ObtainToken", "fail">>
              /\ githubToken[r] = Undefined
              /\ calls[r] = [NoCalls EXCEPT !.secret = 1]

\* an invocation that got the token ghp_abc from its one request
C11_Witness ==
    /\ pc["run1"] = "have_token"
    /\ calls["run1"].secret = 1
    /\ githubToken["run1"] = "ghp_abc"

-----------------------------------------------------------------------------
(* The figures of a record *)

\* the records of the batches that fetchRepositoryInsights has returned
BatchRecords == UNION { Range(insights[r]) : r \in Runs }

RECURSIVE SumOf(_)
\* the sum of the values of the function f
SumOf(f) ==
    IF DOMAIN f = {} THEN 0
    ELSE LET x == CHOOSE y \in DOMAIN f : TRUE
         IN  f[x] + SumOf([y \in DOMAIN f \ {x} |-> f[y]])

\* h is the mean of the durations (in milliseconds) given by the function
\* gaps, in hours, rounded to the nearest integer, a half going up; 0 when
\* there is no duration.
IsMeanHours(h, gaps) ==
    LET n == Cardinality(DOMAIN gaps)
        total == SumOf(gaps)
    IN  IF n = 0 THEN h = 0
        ELSE /\ 2 * h * n * MsPerHour <= 2 * total + n * MsPerHour
             /\ 2 * total + n * MsPerHour < 2 * (h + 1) * n * MsPerHour

\* the milliseconds from instant t to instant u
Between(t, u) == (u.day * 24 - t.day * 24) * MsPerHour + u.ms - t.ms

\* the positions of the closed issues that are no pull requests
ClosedIssuePositions ==
    { i \in 1..Len(github.issues) :
        github.issues[i].state = "closed" /\ github.issues[i].pull_request = Undefined }

\* C12: closedIssues is the number of fetched issues that are closed and have
\* no pull-request back-reference, and averageTimeToCloseIssue is the mean
\* time to close of these same issues.
C12_ClosedIssuesWithoutPullRequests ==
    \A rec \in BatchRecords :
        /\ rec.closedIssues = Cardinality(ClosedIssuePositions)
        /\ IsMeanHours(rec.averageTimeToCloseIssue,
                       [i \in ClosedIssuePositions |->
                           Between(github.issues[i].created_at, github.issues[i].closed_at)])

\* a batch for a repository with a closed issue (24 h) and a closed pull
\* request (10 h) among its issues
C12_Witness ==
    /\ github.issues = <<IssueData("closed", PullUrl, 10), IssueData("closed", Undefined, 24)>>
    /\ \E rec \in BatchRecords : rec.closedIssues = 1 /\ rec.averageTimeToCloseIssue = 24

MergedPositions ==
    { i \in 1..Len(github.pulls) : github.pulls[i].merged_at # JsonNull }

ClosedUnmergedPositions ==
    { i \in 1..Len(github.pulls) :
        github.pulls[i].state = "closed" /\ github.pulls[i].merged_at = JsonNull }

\* C13: averageTimeToMergePR is the mean time from creation to merge of the
\* pull requests that have a merge timestamp, averageTimeToClosePR the mean
\* time from creation to closing of the closed pull requests that have none;
\* both in hours, rounded once, and 0 when there is no such pull request.  Two
\* merged pull requests of 24 h and 48 h give 36.
C13_AverageTimes ==
    \A rec \in BatchRecords :
        /\ IsMeanHours(rec.averageTimeToMergePR,
                       [i \in MergedPositions |->
                           Between(github.pulls[i].created_at, github.pulls[i].merged_at)])
        /\ IsMeanHours(rec.averageTimeToClosePR,
                       [i \in ClosedUnmergedPositions |->
                           Between(github.pulls[i].created_at, github.pulls[i].closed_at)])
        /\ github.pulls = <<PullData("closed", TRUE, 24 * 60), PullData("closed", TRUE, 48 * 60)>>
              => rec.averageTimeToMergePR = 36
        /\ MergedPositions = {} => rec.averageTimeToMergePR = 0

\* a batch for a repository with pull requests merged after 24 h and after
\* 1 h 30 min: the mean, 12 h 45 min, is rounded to 13
C13_Witness ==
    /\ github.pulls = <<PullData("closed", TRUE, 24 * 60), PullData("closed", TRUE, 90)>>
    /\ \E rec \in BatchRecords : rec.averageTimeToMergePR = 13 /\ rec.averageTimeToClosePR = 0

\* the commit figures expected of the answer of getCommitActivityStats
ExpectedCommits(activity) ==
    IF activity.json = "array" /\ activity.items # <<>>
    THEN LET n == Len(activity.items)
         IN  [week |-> activity.items[n].total,
              month |-> SumOf([i \in {j \in 1..n : j > n - 4} |-> activity.items[i].total])]
    ELSE [week |-> 0, month |-> 0]

\* the entries of the repository lists whose six calls have been answered
\* without an error
FetchedEntries ==
    { e \in UNION { Range(fetch[r]) : r \in Runs } :
        /\ e.meta = "ok"
        /\ \A c \in SecondaryCalls : e.sec[c] = "ok" }

\* C14: commitsLastWeek is the total of the last bucket of the commit
\* activity and commitsLastMonth the sum of the totals of its last four
\* buckets (of all when there are fewer); [1,2,3,4,5] gives 5 and 14.  For an
\* empty activity, or one that is no sequence, both are 0 and the repository
\* is in the batch all the same.
C14_CommitCounts ==
    /\ \A e \in FetchedEntries :
          /\ e.result.kind = "record"
          /\ e.result.rec.commitsLastWeek = ExpectedCommits(github.commits).week
          /\ e.result.rec.commitsLastMonth = ExpectedCommits(github.commits).month
    /\ \A rec \in BatchRecords :
          /\ rec.commitsLastWeek = ExpectedCommits(github.commits).week
          /\ rec.commitsLastMonth = ExpectedCommits(github.commits).month
          /\ github.commits = Weeks(<<1, 2, 3, 4, 5>>) =>
                rec.commitsLastWeek = 5 /\ rec.commitsLastMonth = 14
          /\ github.commits \in {Weeks(<<>>), [json |-> "object"]} =>
                rec.commitsLastWeek = 0 /\ rec.commitsLastMonth = 0

\* a batch with the record of a repository whose commit activity came as an
\* empty object
C14_Witness ==
    /\ github.commits = [json |-> "object"]
    /\ \E rec \in BatchRecords : rec.commitsLastWeek = 0 /\ rec.commitsLastMonth = 0

\* the entries for which getLatestRelease reported that there is no release
\* (404) while the other five calls were answered without an error
EntriesWithoutRelease ==
    { e \in UNION { Range(fetch[r]) : r \in Runs } :
        /\ e.meta = "ok"
        /\ e.sec["release"] = "notfound"
        /\ \A c \in SecondaryCalls \ {"release"} : e.sec[c] = "ok" }

\* C15: a repository without a release is in the batch, with latestRelease
\* "No releases" and latestReleaseDate ""; the record of a repository with a
\* release carries the name and the publication date of that release.
C15_ReleaseNameAndDate ==
    /\ \A e \in EntriesWithoutRelease :
          /\ e.result.kind = "record"
          /\ e.result.rec.latestRelease = "No releases"
          /\ e.result.rec.latestReleaseDate = ""
    /\ \A e \in FetchedEntries :
          /\ e.result.kind = "record"
          /\ e.result.rec.latestRelease = github.release.name
          /\ e.result.rec.latestReleaseDate = github.release.published_at

-----------------------------------------------------------------------------
(* The date of the rows *)

\* the rows are dated YYYY-MM-DD with the year, month and day segments of
\* the key, which are those of the UTC date of the instant t
DatedAsKey(rows, key, t) ==
    LET c == UTCDateOf(t)
        year == ToString(c.year)
        month == TwoDigits(c.month)
        day == TwoDigits(c.date)
        time == TwoDigits(t.ms \div 3600000) \o TwoDigits((t.ms \div 60000) % 60)
                    \o TwoDigits((t.ms \div 1000) % 60) \o ThreeDigits(t.ms % 1000)
    IN  /\ key = "github-insights/year=" \o year \o "/month=" \o month \o "/day=" \o day
                    \o "/insights_" \o year \o "-" \o month \o "-" \o day
                    \o "T" \o time \o "Z.parquet"
        /\ \A i \in 1..Len(rows) : rows[i].date = year \o "-" \o month \o "-" \o day

\* C17: all rows an invocation writes carry the same date, YYYY-MM-DD with
\* the year, month and day segments of the key they are stored under: the
\* UTC date of the instant uploadInsightsToS3 read the clock, whenever the
\* repositories were fetched.
C17_RowsDatedAsTheirKey ==
    /\ \A r \in Runs :
          pc[r] \in {"w_put", "done"} =>
              /\ DatedAsKey(w[r].rows, w[r].key, w[r].now)
              /\ Len(w[r].rows) = Len(insights[r])
    /\ \A k \in OutputKeys :
          \E r \in Runs :
              /\ pc[r] = "done"
              /\ k = w[r].key
              /\ DatedAsKey(s3[k].rows, k, w[r].now)

\* an invocation started on 2024-12-31 whose row was written, and dated, on
\* 2025-01-01
C17_Witness ==
    /\ pc["run1"] = "done"
    /\ w["run1"].now = [day |-> 20089, ms |-> 0]
    /\ \E k \in OutputKeys :
          /\ Len(s3[k].rows) = 1
          /\ s3[k].rows[1].date = "2025-01-01"
          /\ s3[k].rows[1].repoName = "octo/alpha"

-----------------------------------------------------------------------------
(* Waiting for every repository *)

\* the number of entries of the list for which a record was returned
RecordCount(entries) == Cardinality({i \in 1..Len(entries) : entries[i].result.kind = "record"})

\* C18: an invocation sends PutObject at most once, and only after the
\* fetch of every repository of its list has ended, with a record or with a
\* failure, in whatever order the answers of GitHub arrive; the object it
\* uploads has one row for each record of the batch.
C18_UploadAfterAllFetches ==
    \A r \in Runs :
        /\ calls[r].putObject <= 1
        /\ calls[r].putObject = 1 => Returned(r, "Collect")
        /\ pc[r] = "collecting" => ~Returned(r, "Collect")
        /\ (Returned(r, "Collect") /\ ~(<<"Write", "start">> \in Range(stageLog[r]))) =>
              /\ \A i \in 1..Len(fetch[r]) : fetch[r][i].result.kind \in {"record", "null"}
              /\ Len(fetch[r]) = Len(repositories[r].items)
              /\ Len(insights[r]) = RecordCount(fetch[r])
        /\ pc[r] \in {"w_put", "done"} =>
              /\ Len(w[r].fileContent) = Len(insights[r])
              /\ \A i \in 1..Len(insights[r]) :
                    w[r].fileContent[i].repoName = insights[r][i].repoName
        /\ pc[r] = "done" => s3[w[r].key].rows = w[r].fileContent

\* an invocation over two repositories, one of which failed, that has
\* uploaded its one row
C18_Witness ==
    /\ pc["run1"] = "done"
    /\ Len(repositories["run1"].items) = 2
    /\ calls["run1"].putObject = 1
    /\ Len(insights["run1"]) = 1
    /\ Len(s3[w["run1"].key].rows) = 1

-----------------------------------------------------------------------------
(* The temporary file *)

\* C19: the body an invocation uploads holds exactly the rows of its own
\* batch, one per record and in the order of the batch, also when another
\* invocation of the same execution environment writes /tmp/insights.parquet
\* at the same time.
C19_OwnRowsUploaded ==
    \A r \in Runs :
        pc[r] \in {"w_put", "done"} =>
            /\ w[r].fileContent = w[r].rows
            /\ Len(w[r].rows) = Len(insights[r])
            /\ \A i \in 1..Len(insights[r]) :
                  \A f \in DOMAIN insights[r][i] : w[r].rows[i][f] = insights[r][i][f]

-----------------------------------------------------------------------------
(* The order of the batch *)

\* the strictly increasing maps from the positions of batch to those of items
Embeddings(batch, items) ==
    { f \in [1..Len(batch) -> 1..Len(items)] :
        \A k, l \in 1..Len(batch) : k < l => f[k] < f[l] }

\* C20: the batch is the repository list restricted to the repositories that
\* were fetched, in the order of the list, in whatever order their fetches
\* ended; a reference listed k times has at most k records.
C20_BatchInListOrder ==
    \A r \in Runs :
        Returned(r, "Collect") =>
            LET items == repositories[r].items
                batch == insights[r]
            IN  /\ \E f \in Embeddings(batch, items) :
                      /\ \A k \in 1..Len(batch) : batch[k].repoName = NameOf(items[f[k]])
                      /\ pc[r] = "collected" =>
                            /\ \A k \in 1..Len(batch) : fetch[r][f[k]].result = Fulfilled(batch[k])
                            /\ \A i \in 1..Len(items) :
                                  HasRecord(fetch[r][i]) => \E k \in 1..Len(batch) : f[k] = i
                /\ \A i \in 1..Len(items) :
                      Cardinality({k \in 1..Len(batch) : batch[k].repoName = NameOf(items[i])})
                          <= Cardinality({j \in 1..Len(items) : NameOf(items[j]) = NameOf(items[i])})

\* both repositories of the list octo/alpha, octo/beta are in the batch
C20_Witness ==
    /\ pc["run1"] = "collected"
    /\ Len(insights["run1"]) = 2
    /\ insights["run1"][1].repoName = "octo/alpha"
    /\ insights["run1"][2].repoName = "octo/beta"

-----------------------------------------------------------------------------
(* The calls made for one repository *)

\* the number of calls sent so far for the entry e of a repository list
CallsOf(e) ==
    (IF e.meta = "none" THEN 0 ELSE 1)
        + Cardinality({c \in SecondaryCalls : e.sec[c] # "none"})

\* no call of the entry e is sent before the metadata call has succeeded
MetadataFirst(e) ==
    /\ e.meta \in {"none", "inflight", "err"} => \A c \in SecondaryCalls : e.sec[c] = "none"
    /\ e.meta = "err" => CallsOf(e) = 1 /\ e.result = Null
    /\ e.meta = "ok" => CallsOf(e) = 6

\* a call of the entry that has been sent, or answered, is not sent again
NotSentAgain(e, f) ==
    /\ e.meta \in {"ok", "err"} => f.meta = e.meta
    /\ \A c \in SecondaryCalls :
          /\ e.sec[c] = "inflight" => f.sec[c] # "none"
          /\ e.sec[c] \notin {"none", "inflight"} => f.sec[c] \notin {"none", "inflight"}

\* C21: for each entry of the repository list the metadata call is sent
\* first and alone, the five other calls only once it has succeeded, so that
\* a repository whose metadata call fails costs exactly one call; no call is
\* sent a second time.
C21_MetadataCallFirst ==
    /\ [](\A r \in Runs : \A i \in 1..Len(fetch[r]) : MetadataFirst(fetch[r][i]))
    /\ [][\A r \in Runs :
            \A i \in 1..Len(fetch[r]) :
                i \in 1..Len(fetch'[r]) => NotSentAgain(fetch[r][i], fetch'[r][i])]_vars

\* the first repository failed in its metadata call, its only call; the
\* second got its six calls answered
C21_Witness ==
    /\ pc["run1"] = "collected"
    /\ Len(fetch["run1"]) = 2
    /\ fetch["run1"][1].meta = "err"
    /\ CallsOf(fetch["run1"][1]) = 1
    /\ fetch["run1"][2].result.kind = "record"
    /\ RepoApiCalls("run1") = 7

-----------------------------------------------------------------------------
(* The schema of the file, the catalog table and the saved query *)

\* new parquet.ParquetSchema({...}): the fields of a row, in order
schema ==
    << [name |-> "repoName", type |-> "UTF8", repeated |-> FALSE],
       [name |-> "description", type |-> "UTF8", repeated |-> FALSE],
       [name |-> "stars", type |-> "INT64", repeated |-> FALSE],
       [name |-> "forks", type |-> "INT64", repeated |-> FALSE],
       [name |-> "openIssues", type |-> "INT64", repeated |-> FALSE],
       [name |-> "closedIssues", type |-> "INT64", repeated |-> FALSE],
       [name |-> "openPullRequests", type |-> "INT64", repeated |-> FALSE],
       [name |-> "mergedPullRequests", type |-> "INT64", repeated |-> FALSE],
       [name |-> "closedPullRequests", type |-> "INT64", repeated |-> FALSE],
       [name |-> "watchers", type |-> "INT64", repeated |-> FALSE],
       [name |-> "language", type |-> "UTF8", repeated |-> FALSE],
       [name |-> "topics", type |-> "UTF8", repeated |-> TRUE],
       [name |-> "license", type |-> "UTF8", repeated |-> FALSE],
       [name |-> "size", type |-> "INT64", repeated |-> FALSE],
       [name |-> "createdAt", type |-> "UTF8", repeated |-> FALSE],
       [name |-> "updatedAt", type |-> "UTF8", repeated |-> FALSE],
       [name |-> "pushedAt", type |-> "UTF8", repeated |-> FALSE],
       [name |-> "latestRelease", type |-> "UTF8", repeated |-> FALSE],
       [name |-> "latestReleaseDate", type |-> "UTF8", repeated |-> FALSE],
       [name |-> "contributorsCount", type |-> "INT64", repeated |-> FALSE],
       [name |-> "commitsLastWeek", type |-> "INT64", repeated |-> FALSE],
       [name |-> "commitsLastMonth", type |-> "INT64", repeated |-> FALSE],
       [name |-> "averageTimeToMergePR", type |-> "DOUBLE", repeated |-> FALSE],
       [name |-> "averageTimeToClosePR", type |-> "DOUBLE", repeated |-> FALSE],
       [name |-> "averageTimeToCloseIssue", type |-> "DOUBLE", repeated |-> FALSE],
       [name |-> "date", type |-> "UTF8", repeated |-> FALSE] >>

\* the columns of the table github_insights
tableColumns ==
    << [name |-> "reponame", type |-> "string"],
       [name |-> "description", type |-> "string"],
       [name |-> "stars", type |-> "bigint"],
       [name |-> "forks", type |-> "bigint"],
       [name |-> "openissues", type |-> "bigint"],
       [name |-> "closedissues", type |-> "bigint"],
       [name |-> "openpullrequests", type |-> "bigint"],
       [name |-> "mergedpullrequests", type |-> "bigint"],
       [name |-> "closedpullrequests", type |-> "bigint"],
       [name |-> "watchers", type |-> "bigint"],
       [name |-> "language", type |-> "string"],
       [name |-> "topics", type |-> "array<string>"],
       [name |-> "license", type |-> "string"],
       [name |-> "size", type |-> "bigint"],
       [name |-> "createdat", type |-> "string"],
       [name |-> "updatedat", type |-> "string"],
       [name |-> "pushedat", type |-> "string"],
       [name |-> "latestrelease", type |-> "string"],
       [name |-> "latestreleasedate", type |-> "string"],
       [name |-> "contributorscount", type |-> "bigint"],
       [name |-> "commitslastweek", type |-> "bigint"],
       [name |-> "commitslastmonth", type |-> "bigint"],
       [name |-> "averagetimetomergepr", type |-> "double"],
       [name |-> "averagetimetoclosepr", type |-> "double"],
       [name |-> "averagetimetocloseissue", type |-> "double"],
       [name |-> "date", type |-> "string"] >>

\* its partition keys
partitionKeys ==
    << [name |-> "year", type |-> "string"],
       [name |-> "month", type |-> "string"],
       [name |-> "day", type |-> "string"] >>

\* The columns the query GitHubInsightsMonthlyAverage refers to, in the
\* order of its SELECT list, WHERE, GROUP BY and ORDER BY clauses (avg_stars
\* is an alias of the SELECT list, not a column).
queryColumns ==
    << "reponame", "stars", "forks", "openissues", "commitslastmonth",
       "uniquevisitors", "totalviews", "uniquecloners", "totalclones",
       "year", "month", "reponame" >>

\* the names of the fields of the schema, letter by letter
Spelled ==
    { <<"r", "e", "p", "o", "N", "a", "m", "e">>,
      <<"d", "e", "s", "c", "r", "i", "p", "t", "i", "o", "n">>,
      <<"s", "t", "a", "r", "s">>,
      <<"f", "o", "r", "k", "s">>,
      <<"o", "p", "e", "n", "I", "s", "s", "u", "e", "s">>,
      <<"c", "l", "o", "s", "e", "d", "I", "s", "s", "u", "e", "s">>,
      <<"o", "p", "e", "n", "P", "u", "l", "l", "R", "e", "q", "u", "e", "s", "t", "s">>,
      <<"m", "e", "r", "g", "e", "d", "P", "u", "l", "l", "R", "e", "q", "u", "e", "s", "t", "s">>,
      <<"c", "l", "o", "s", "e", "d", "P", "u", "l", "l", "R", "e", "q", "u", "e", "s", "t", "s">>,
      <<"w", "a", "t", "c", "h", "e", "r", "s">>,
      <<"l", "a", "n", "g", "u", "a", "g", "e">>,
      <<"t", "o", "p", "i", "c", "s">>,
      <<"l", "i", "c", "e", "n", "s", "e">>,
      <<"s", "i", "z", "e">>,
      <<"c", "r", "e", "a", "t", "e", "d", "A", "t">>,
      <<"u", "p", "d", "a", "t", "e", "d", "A", "t">>,
      <<"p", "u", "s", "h", "e", "d", "A", "t">>,
      <<"l", "a", "t", "e", "s", "t", "R", "e", "l", "e", "a", "s", "e">>,
      <<"l", "a", "t", "e", "s", "t", "R", "e", "l", "e", "a", "s", "e", "D", "a", "t", "e">>,
      <<"c", "o", "n", "t", "r", "i", "b", "u", "t", "o", "r", "s", "C", "o", "u", "n", "t">>,
      <<"c", "o", "m", "m", "i", "t", "s", "L", "a", "s", "t", "W", "e", "e", "k">>,
      <<"c", "o", "m", "m", "i", "t", "s", "L", "a", "s", "t", "M", "o", "n", "t", "h">>,
      <<"a", "v", "e", "r", "a", "g", "e", "T", "i", "m", "e", "T", "o", "M", "e", "r", "g", "e", "P", "R">>,
      <<"a", "v", "e", "r", "a", "g", "e", "T", "i", "m", "e", "T", "o", "C", "l", "o", "s", "e", "P", "R">>,
      <<"a", "v", "e", "r", "a", "g", "e", "T", "i", "m", "e", "T", "o", "C", "l", "o", "s", "e", "I", "s", "s", "u", "e">>,
      <<"d", "a", "t", "e">> }


\* the names of the columns, or fields, of the sequence cols
Names(cols) == {cols[i].name : i \in 1..Len(cols)}

UpperCaseLetters ==
    <<"A", "B", "C", "D", "E", "F", "G", "H", "I", "J", "K", "L", "M",
      "N", "O", "P", "Q", "R", "S", "T", "U", "V", "W", "X", "Y", "Z">>

LowerCaseLetters ==
    <<"a", "b", "c", "d", "e", "f", "g", "h", "i", "j", "k", "l", "m",
      "n", "o", "p", "q", "r", "s", "t", "u", "v", "w", "x", "y", "z">>

\* the name spelled by chars, in lower case
LowerCased(chars) ==
    Join([i \in 1..Len(chars) |->
            IF \E k \in 1..26 : UpperCaseLetters[k] = chars[i]
            THEN LowerCaseLetters[CHOOSE k \in 1..26 : UpperCaseLetters[k] = chars[i]]
            ELSE chars[i]])

\* the fields of the schema are the fields of a record and date, and the
\* columns of the table are their names in lower case, one column a field
SchemaIsCatalogued ==
    /\ {Join(chars) : chars \in Spelled} = Names(schema)
    /\ Names(tableColumns) = {LowerCased(chars) : chars \in Spelled}
    /\ Len(tableColumns) = Len(schema)
    /\ Cardinality(Names(tableColumns)) = Len(tableColumns)
    /\ \A r \in Runs :
          \A i \in 1..Len(w[r].rows) : DOMAIN w[r].rows[i] = Names(schema)

\* C22: every column the saved query GitHubInsightsMonthlyAverage refers to
\* is a column or a partition key of the table github_insights, and the
\* columns of the table are exactly the names, in lower case, of the fields
\* of the schema the rows are written with: the fields of a record and date.
C22_QueryColumnsAreCatalogued ==
    /\ Range(queryColumns) \subseteq Names(tableColumns) \cup Names(partitionKeys)
    /\ SchemaIsCatalogued

=============================================================================
